---- MODULE Spec2Model ----
(***************************************************************************)
(* A model of the grid layouter (src/src/layout/grid.rs) and of the PDF    *)
(* exporter (src/src/export/pdf.rs).                                       *)
(*                                                                         *)
(* Lengths are f64 values in the source.  They are modelled as exact       *)
(* rationals <<n, d>> with d > 0, extended by the IEEE values +inf         *)
(* (<<1, 0>>), -inf (<<-1, 0>>) and NaN (<<0, 0>>); rounding is not        *)
(* modelled.  The two logical axes are called inline and block as in the   *)
(* source; the mapping of the logical axes to x and y (Gen <-> Spec) is a  *)
(* fixed renaming and is not modelled.                                     *)
(***************************************************************************)
EXTENDS Integers, Sequences, FiniteSets, TLC

(***************************************************************************)
(* Length arithmetic (crate::geom::Length over f64).                       *)
(***************************************************************************)
Abs(n) == IF n < 0 THEN -n ELSE n

Sign(n) == IF n < 0 THEN -1 ELSE IF n > 0 THEN 1 ELSE 0

RECURSIVE Gcd(_, _)
Gcd(a, b) == IF b = 0 THEN a ELSE Gcd(b, a % b)

\* The normal form of the fraction n / d, d # 0.
Norm(n, d) ==
    LET g == Gcd(Abs(n), Abs(d))
        s == Sign(d)
    IN  <<(s * n) \div g, (s * d) \div g>>

Pt(n) == <<n, 1>>

Zero == <<0, 1>>

Inf == <<1, 0>>

NaN == <<0, 0>>

IsNaN(a) == a = NaN

IsFinite(a) == a[2] # 0

IsInfinite(a) == a[2] = 0 /\ a[1] # 0

IsZero(a) == a[2] # 0 /\ a[1] = 0

LNeg(a) == <<-a[1], a[2]>>

LAdd(a, b) ==
    IF IsNaN(a) \/ IsNaN(b) THEN NaN
    ELSE IF IsFinite(a) /\ IsFinite(b) THEN Norm(a[1] * b[2] + b[1] * a[2], a[2] * b[2])
    ELSE IF IsFinite(a) THEN b
    ELSE IF IsFinite(b) THEN a
    ELSE IF a = b THEN a
    ELSE NaN

LSub(a, b) == LAdd(a, LNeg(b))

LMul(a, b) ==
    IF IsNaN(a) \/ IsNaN(b) THEN NaN
    ELSE IF IsFinite(a) /\ IsFinite(b) THEN Norm(a[1] * b[1], a[2] * b[2])
    ELSE IF a[1] = 0 \/ b[1] = 0 THEN NaN
    ELSE <<Sign(a[1]) * Sign(b[1]), 0>>

LDiv(a, b) ==
    IF IsNaN(a) \/ IsNaN(b) THEN NaN
    ELSE IF IsFinite(a) /\ IsFinite(b)
         THEN IF b[1] # 0 THEN Norm(a[1] * b[2], a[2] * b[1])
              ELSE <<Sign(a[1]), 0>>
    ELSE IF IsFinite(a) THEN Zero
    ELSE IF IsFinite(b) THEN <<Sign(a[1]) * (IF b[1] < 0 THEN -1 ELSE 1), 0>>
    ELSE NaN

\* a < b, a <= b, a == b as f64 compares them: false as soon as one is NaN.
LLt(a, b) ==
    /\ ~IsNaN(a)
    /\ ~IsNaN(b)
    /\ IF IsFinite(a) /\ IsFinite(b) THEN a[1] * b[2] < b[1] * a[2]
       ELSE IF IsFinite(a) THEN b[1] > 0
       ELSE IF IsFinite(b) THEN a[1] < 0
       ELSE a[1] < b[1]

LEq(a, b) == ~IsNaN(a) /\ ~IsNaN(b) /\ a = b

LLe(a, b) == LLt(a, b) \/ LEq(a, b)

LGe(a, b) == LLe(b, a)

LGt(a, b) == LLt(b, a)

\* f64::max as Length::set_max uses it: a NaN operand is ignored.
LMax(a, b) == IF IsNaN(a) THEN b ELSE IF IsNaN(b) THEN a ELSE IF LLt(a, b) THEN b ELSE a

LMin(a, b) == IF IsNaN(a) THEN b ELSE IF IsNaN(b) THEN a ELSE IF LLt(b, a) THEN b ELSE a

Fits(a, b) == LGe(a, b)

RECURSIVE LSumFrom(_, _)
LSumFrom(s, i) == IF i > Len(s) THEN Zero ELSE LAdd(s[i], LSumFrom(s, i + 1))

LSum(s) == LSumFrom(s, 1)

(***************************************************************************)
(* Data of the layout engine.                                              *)
(***************************************************************************)
None == <<>>

Some(v) == v

Gen(i, b) == [inline |-> i, block |-> b]

\* TrackSizing::Auto, TrackSizing::Linear(abs + rel * base), TrackSizing::Fractional(fr)
Auto == [kind |-> "Auto", abs |-> Zero, rel |-> Zero, fr |-> Zero]

Linear(abs, rel) == [kind |-> "Linear", abs |-> abs, rel |-> rel, fr |-> Zero]

Fractional(v) == [kind |-> "Fractional", abs |-> Zero, rel |-> Zero, fr |-> v]

\* Linear::resolve: absolute + relative * base; a zero relative part contributes
\* nothing, whatever the base.
Resolve(v, base) == LAdd(v.abs, IF IsZero(v.rel) THEN Zero ELSE LMul(v.rel, base))

\* Regions::one
RegionsOne(size, base, expand) ==
    [current |-> size, base |-> base, backlog |-> <<>>, last |-> None, expand |-> expand]

\* Regions::next: the next region of the backlog, or the repeated last one.
RegionsNext(regs) ==
    IF Len(regs.backlog) > 0
    THEN [regs EXCEPT !.current = regs.backlog[1], !.base = regs.backlog[1],
                      !.backlog = Tail(regs.backlog)]
    ELSE IF regs.last # None
    THEN [regs EXCEPT !.current = regs.last, !.base = regs.last]
    ELSE regs

\* Regions::in_full_last
InFullLast(regs) ==
    /\ Len(regs.backlog) = 0
    /\ \/ regs.last = None
       \/ IsNaN(regs.current.inline)
       \/ IsNaN(regs.current.block)
       \/ regs.last = regs.current

\* Regions::mutate with the closure |size| size.set(inline, v)
RegionsSetInline(regs, v) ==
    [regs EXCEPT !.current = [regs.current EXCEPT !.inline = v],
                 !.backlog = [i \in 1..Len(regs.backlog) |->
                                  [regs.backlog[i] EXCEPT !.inline = v]],
                 !.last = IF regs.last = None THEN None
                          ELSE [regs.last EXCEPT !.inline = v]]

\* Regions::iter, the block sizes of the first n upcoming regions (fewer when the
\* regions end).
RECURSIVE RegionsIterBlock(_, _)
RegionsIterBlock(regs, n) ==
    IF n = 0 THEN <<>>
    ELSE <<regs.current.block>> \o
         (IF Len(regs.backlog) = 0 /\ regs.last = None THEN <<>>
          ELSE RegionsIterBlock(RegionsNext(regs), n - 1))

\* Constraints::new
ConstraintsNew(expand) ==
    [expand |-> expand, min |-> Gen(None, None), max |-> Gen(None, None),
     exact |-> Gen(None, None), base |-> Gen(None, None)]

\* Frame::new and Frame::push_frame: a frame is its size and its placed children.
FrameNew(size) == [size |-> size, children |-> <<>>]

PushFrame(frame, pos, child) ==
    [frame EXCEPT !.children = Append(@, [pos |-> pos, size |-> child.size])]

\* Frame::merge_frame: the children of `sub` are inlined at offset `pos`.
MergeFrame(frame, pos, sub) ==
    [frame EXCEPT !.children = @ \o
        [i \in 1..Len(sub.children) |->
            [pos |-> Gen(LAdd(pos.inline, sub.children[i].pos.inline),
                         LAdd(pos.block, sub.children[i].pos.block)),
             size |-> sub.children[i].size]]]

(***************************************************************************)
(* A child node (LayoutNode::layout).  A child is content of natural       *)
(* inline size w and total block size h that flows through the regions it   *)
(* is given: it fills a region and continues in the next one while there   *)
(* is one.  It returns one frame per region it consumed; a frame takes the *)
(* region's size on an axis that expands.                                  *)
(***************************************************************************)
RECURSIVE ChildLayout(_, _)
ChildLayout(node, regs) ==
    LET cur   == regs.current
        more  == Len(regs.backlog) > 0 \/ regs.last # None
        fits  == LLe(node.h, cur.block) \/ ~more
        piece == IF fits THEN node.h ELSE LMax(Zero, cur.block)
        size  == Gen(IF regs.expand.inline /\ IsFinite(cur.inline) THEN cur.inline ELSE node.w,
                     IF regs.expand.block /\ IsFinite(cur.block) THEN cur.block ELSE piece)
    IN  IF fits THEN <<FrameNew(size)>>
        ELSE <<FrameNew(size)>> \o
             ChildLayout([node EXCEPT !.h = LSub(node.h, piece)], RegionsNext(regs))

(***************************************************************************)
(* GridLayouter.  Track and cell indices x, y count from 0 as in the       *)
(* source; sequences are indexed from 1.                                   *)
(***************************************************************************)
Max2(a, b) == IF a > b THEN a ELSE b

\* A get_or that does not fall back to the last given track.
GetOrDefault(tracks, idx, default) ==
    IF idx < Len(tracks) THEN tracks[idx + 1] ELSE default

\* The closure get_or of GridLayouter::new.
GetOr(tracks, idx, default) ==
    IF idx < Len(tracks) THEN tracks[idx + 1]
    ELSE IF Len(tracks) > 0 THEN tracks[Len(tracks)]
    ELSE default

\* The number of content columns of GridLayouter::new.
ContentCols(grid) == Max2(Len(grid.tracks.inline), 1)

\* The number of content rows of GridLayouter::new.
ContentRows(grid) ==
    LET c      == ContentCols(grid)
        len    == Len(grid.children)
        given  == Len(grid.tracks.block)
        needed == (len \div c) + (IF len % c > 0 THEN 1 ELSE 0)
    IN  Max2(given, needed)

\* UnifyTracks without the pop of the superfluous last gutter track.
UnifyTracksKeepGutter(tracks, gutter, n) ==
    [i \in 1..(2 * n) |->
        IF i % 2 = 1 THEN GetOr(tracks, (i - 1) \div 2, Auto)
        ELSE GetOr(gutter, (i - 1) \div 2, Linear(Zero, Zero))]

\* Content and gutter tracks pushed alternately for n content tracks, then the
\* superfluous last gutter track popped.
UnifyTracks(tracks, gutter, n) ==
    LET pushed == [i \in 1..(2 * n) |->
                      IF i % 2 = 1 THEN GetOr(tracks, (i - 1) \div 2, Auto)
                      ELSE GetOr(gutter, (i - 1) \div 2, Linear(Zero, Zero))]
    IN  IF n = 0 THEN <<>> ELSE SubSeq(pushed, 1, 2 * n - 1)

\* GridLayouter::new
NewLayouter(grid, regions) ==
    LET cols == UnifyTracks(grid.tracks.inline, grid.gutter.inline, ContentCols(grid))
        rows == UnifyTracks(grid.tracks.block, grid.gutter.block, ContentRows(grid))
    IN  [cols        |-> cols,
         rows        |-> rows,
         children    |-> grid.children,
         constraints |-> ConstraintsNew(regions.expand),
         regions     |-> [regions EXCEPT !.expand = Gen(TRUE, FALSE)],
         expand      |-> regions.expand,
         rcols       |-> [i \in 1..Len(cols) |-> Zero],
         lrows       |-> <<>>,
         full        |-> regions.current.block,
         used        |-> Gen(Zero, Zero),
         fr          |-> Zero,
         finished    |-> <<>>]

\* GridLayouter::cell: the child of cell (x, y), or None for a gutter cell or
\* when there are fewer children.
Cell(l, x, y) ==
    IF x % 2 = 0 /\ y % 2 = 0
    THEN LET c   == 1 + Len(l.cols) \div 2
             idx == (y \div 2) * c + x \div 2
         IN  IF idx < Len(l.children) THEN l.children[idx + 1] ELSE None
    ELSE None

\* GridLayouter::complete
Complete(l, block) == Gen(l.used.inline, block)

\* The inline size of an Auto column x in measure_auto_columns: the largest inline
\* size of the column's cells laid out in (available, inf) without expansion.
RECURSIVE AutoColumnSize(_, _, _, _)
AutoColumnSize(l, x, available, y) ==
    IF y >= Len(l.rows) THEN Zero
    ELSE LET node == Cell(l, x, y)
             row  == l.rows[y + 1]
             base == IF row.kind = "Linear"
                     THEN [l.regions.base EXCEPT !.block = Resolve(row, l.regions.base.block)]
                     ELSE l.regions.base
             regs == RegionsOne(Gen(available, Inf), base, Gen(FALSE, FALSE))
             rest == AutoColumnSize(l, x, available, y + 1)
         IN  IF node = None THEN rest
             ELSE LMax(ChildLayout(node, regs)[1].size.inline, rest)

\* GridLayouter::measure_auto_columns: the resolved columns, the sum and the number
\* of the Auto columns.
MeasureAutoColumns(l, available) ==
    LET n     == Len(l.cols)
        rcols == [i \in 1..n |-> IF l.cols[i].kind = "Auto"
                                 THEN AutoColumnSize(l, i - 1, available, 0)
                                 ELSE l.rcols[i]]
        autos == {i \in 1..n : l.cols[i].kind = "Auto"}
    IN  [rcols |-> rcols,
         auto  |-> LSum([i \in 1..n |-> IF i \in autos THEN rcols[i] ELSE Zero]),
         count |-> Cardinality(autos)]

\* GridLayouter::grow_fractional_columns
GrowFractionalColumns(cols, rcols, remaining, fr) ==
    [i \in 1..Len(cols) |->
        IF cols[i].kind = "Fractional" /\ IsFinite(LDiv(cols[i].fr, fr))
        THEN LMul(LDiv(cols[i].fr, fr), remaining)
        ELSE rcols[i]]

\* GridLayouter::shrink_auto_columns
ShrinkAutoColumns(cols, rcols, available, count) ==
    LET n     == Len(cols)
        fair  == LDiv(available, Pt(count))
        over  == {i \in 1..n : cols[i].kind = "Auto" /\ LGt(rcols[i], fair)}
        small == [i \in 1..n |-> IF cols[i].kind = "Auto" /\ i \notin over
                                 THEN rcols[i] ELSE Zero]
        redistribute == LSub(available, LSum(small))
        share == LDiv(redistribute, Pt(Cardinality(over)))
    IN  [i \in 1..n |-> IF i \in over THEN share ELSE rcols[i]]

\* The pass of measure_columns over the columns: the Linear columns resolved, their
\* sum, the sum of the fractions and the case the pass ends in.
ResolveLinearColumns(l) ==
    LET n    == Len(l.cols)
        base == l.regions.base.inline
        res  == [i \in 1..n |-> IF l.cols[i].kind = "Linear"
                                THEN Resolve(l.cols[i], base) ELSE Zero]
    IN  [rcols  |-> [i \in 1..n |-> IF l.cols[i].kind = "Linear" THEN res[i] ELSE l.rcols[i]],
         linear |-> LSum(res),
         fr     |-> LSum([i \in 1..n |-> l.cols[i].fr]),
         case   |-> IF \E i \in 1..n : l.cols[i].kind \in {"Auto", "Fractional"}
                    THEN "Fitting" ELSE "PurelyLinear"]

\* The branch of measure_columns on the space left by the Linear columns: the
\* resolved columns and the case.
DistributeColumns(l, pass, current) ==
    LET available == LSub(current, pass.linear)
        l1        == [l EXCEPT !.rcols = pass.rcols]
    IN  IF LGe(available, Zero)
        THEN LET m         == MeasureAutoColumns(l1, available)
                 remaining == LSub(available, m.auto)
             IN  IF LGe(remaining, Zero)
                 THEN IF ~IsZero(pass.fr)
                      THEN [rcols |-> GrowFractionalColumns(l.cols, m.rcols, remaining, pass.fr),
                            case  |-> "Exact"]
                      ELSE [rcols |-> m.rcols, case |-> pass.case]
                 ELSE [rcols |-> ShrinkAutoColumns(l.cols, m.rcols, available, m.count),
                       case  |-> "Exact"]
        ELSE [rcols |-> pass.rcols,
              case  |-> IF pass.case = "Fitting" THEN "Overflowing" ELSE pass.case]

\* CaseConstraints with the Overflowing case recording current instead of linear.
CaseConstraintsMaxCurrent(cons, case, used, current, linear) ==
    IF case = "Fitting" THEN [cons EXCEPT !.min.inline = Some(used)]
    ELSE IF case = "Exact" THEN [cons EXCEPT !.exact.inline = Some(current)]
    ELSE IF case = "Overflowing" THEN [cons EXCEPT !.max.inline = Some(current)]
    ELSE cons

\* The constraints measure_columns records for the case it hit.  The sum of the
\* columns is stored in used.inline only after this step, so `used` is the value
\* used.inline has before measure_columns.
CaseConstraints(cons, case, used, current, linear) ==
    IF case = "Fitting" THEN [cons EXCEPT !.min.inline = Some(used)]
    ELSE IF case = "Exact" THEN [cons EXCEPT !.exact.inline = Some(current)]
    ELSE IF case = "Overflowing" THEN [cons EXCEPT !.max.inline = Some(linear)]
    ELSE cons

\* GridLayouter::measure_columns.  The field `case` is the local variable `case`
\* and `linear` the local `linear`, kept for the properties about them.
MeasureColumns(l) ==
    LET current == l.regions.current.inline
        pass    == ResolveLinearColumns(l)
        d       == DistributeColumns(l, pass, current)
        cons    == [l.constraints EXCEPT !.base = l.regions.base]
    IN  [lay    |-> [l EXCEPT !.rcols = d.rcols,
                              !.constraints =
                                  CaseConstraints(cons, d.case, l.used.inline, current, pass.linear),
                              !.used = [l.used EXCEPT !.inline = LSum(d.rcols)]],
         case   |-> d.case,
         linear |-> pass.linear]

\* The columns x (from 0, ascending) of row y that hold a child.
CellColumns(l, y) ==
    SelectSeq([i \in 1..Len(l.cols) |-> i - 1], LAMBDA x : Cell(l, x, y) # None)

\* The inline position of column x: the sum of the columns before it.
InlinePos(l, x) == LSum(SubSeq(l.rcols, 1, x))

\* GridLayouter::layout_single_row
LayoutSingleRow(l, block, y) ==
    LET xs == CellColumns(l, y)
        frameOf(x) ==
            LET size == Gen(l.rcols[x + 1], block)
                base == Gen(IF l.cols[x + 1].kind # "Auto" THEN size.inline
                            ELSE l.regions.base.inline,
                            IF l.rows[y + 1].kind # "Auto" THEN size.block
                            ELSE l.regions.base.block)
            IN  ChildLayout(Cell(l, x, y), RegionsOne(size, base, Gen(TRUE, TRUE)))[1]
    IN  [size     |-> Complete(l, block),
         children |-> [k \in 1..Len(xs) |->
                          [pos |-> Gen(InlinePos(l, xs[k]), Zero), size |-> frameOf(xs[k]).size]]]

\* GridLayouter::layout_multi_row
LayoutMultiRow(l, resolved, y) ==
    LET xs == CellColumns(l, y)
        regions == [RegionsOne(Complete(l, resolved[1]), l.regions.base, Gen(TRUE, TRUE))
                        EXCEPT !.backlog = [i \in 1..(Len(resolved) - 1) |->
                                               Complete(l, resolved[i + 1])]]
        framesOf(x) ==
            LET sized == RegionsSetInline(regions, l.rcols[x + 1])
                regs  == IF l.cols[x + 1].kind = "Auto"
                         THEN [sized EXCEPT !.base.inline = l.regions.base.inline]
                         ELSE sized
            IN  ChildLayout(Cell(l, x, y), regs)
    IN  [i \in 1..Len(resolved) |->
            LET here == SelectSeq(xs, LAMBDA x : Len(framesOf(x)) >= i)
            IN  [size     |-> Complete(l, resolved[i]),
                 children |-> [k \in 1..Len(here) |->
                                  [pos  |-> Gen(InlinePos(l, here[k]), Zero),
                                   size |-> framesOf(here[k])[i].size]]]]

\* GridLayouter::push_row
PushRow(l, frame) ==
    [l EXCEPT !.regions.current.block = LSub(@, frame.size.block),
              !.used.block = LAdd(@, frame.size.block),
              !.lrows = Append(@, [kind |-> "Frame", frame |-> frame, v |-> Zero, y |-> 0])]

\* The loop of finish_region over the rows of the region: the rows from the i-th on
\* are placed into `output` at block offset `pos`.
RECURSIVE PlaceRows(_, _, _, _, _)
PlaceRows(l, remaining, i, pos, output) ==
    IF i > Len(l.lrows) THEN output
    ELSE LET row   == l.lrows[i]
             ratio == LDiv(row.v, l.fr)
             skip  == row.kind = "Fr" /\ ~(IsFinite(remaining) /\ IsFinite(ratio))
             frame == IF row.kind = "Frame" THEN row.frame
                      ELSE LayoutSingleRow(l, LMul(ratio, remaining), row.y)
         IN  IF skip THEN PlaceRows(l, remaining, i + 1, pos, output)
             ELSE PlaceRows(l, remaining, i + 1, LAdd(pos, frame.size.block),
                            MergeFrame(output, Gen(Zero, pos), frame))

\* The constraints finish_region starts the next region with.
NextConstraints(l) == ConstraintsNew(l.expand)

\* GridLayouter::finish_region
FinishRegion(l) ==
    LET block == IF IsZero(l.fr) \/ IsInfinite(l.full) THEN l.used.block ELSE l.full
        cons  == [l.constraints EXCEPT !.min.block = Some(block)]
        remaining == LSub(l.full, l.used.block)
        output == PlaceRows(l, remaining, 1, Zero, FrameNew(Complete(l, block)))
        regions == RegionsNext(l.regions)
    IN  [l EXCEPT !.lrows = <<>>,
                  !.regions = regions,
                  !.full = regions.current.block,
                  !.used.block = Zero,
                  !.fr = Zero,
                  !.finished = Append(@, [item |-> output, constraints |-> cons]),
                  !.constraints = NextConstraints(l)]

\* The merge of layout_auto_row: the entries of `resolved` raised to the sizes they
\* meet, and the further sizes appended.
MergeSizes(resolved, sizes) ==
    [i \in 1..Max2(Len(resolved), Len(sizes)) |->
        IF i > Len(sizes) THEN resolved[i]
        ELSE IF i > Len(resolved) THEN sizes[i]
        ELSE LMax(resolved[i], sizes[i])]

\* The first loop of layout_auto_row: the block size of row y in each region it
\* spans, from the cells of the columns xs[k..].
RECURSIVE AutoRowSizes(_, _, _, _, _)
AutoRowSizes(l, y, xs, k, resolved) ==
    IF k > Len(xs) THEN resolved
    ELSE LET x      == xs[k]
             sized  == RegionsSetInline(l.regions, l.rcols[x + 1])
             regs   == IF l.cols[x + 1].kind = "Auto"
                       THEN [sized EXCEPT !.base.inline = l.regions.base.inline]
                       ELSE sized
             frames == ChildLayout(Cell(l, x, y), regs)
             sizes  == [i \in 1..Len(frames) |-> frames[i].size.block]
         IN  AutoRowSizes(l, y, xs, k + 1, MergeSizes(resolved, sizes))

\* The expansion of layout_auto_row: all but the last size raised to the block size
\* of the region they fall into.
ExpandSizes(l, resolved) ==
    LET len  == Len(resolved)
        regs == RegionsIterBlock(l.regions, len - 1)
    IN  [i \in 1..len |-> IF i < len /\ i <= Len(regs)
                          THEN LMax(resolved[i], regs[i]) ELSE resolved[i]]

\* A last loop of layout_auto_row that finishes the regions without the exact
\* block constraint.
RECURSIVE PushFramesNoExact(_, _, _)
PushFramesNoExact(l, frames, i) ==
    IF i > Len(frames) THEN l
    ELSE LET pushed == PushRow(l, frames[i])
         IN  IF i < Len(frames)
             THEN PushFramesNoExact(FinishRegion(pushed), frames, i + 1)
             ELSE pushed

\* The last loop of layout_auto_row: the frames from the i-th on are pushed, with a
\* region finished after each but the last.
RECURSIVE PushFrames(_, _, _)
PushFrames(l, frames, i) ==
    IF i > Len(frames) THEN l
    ELSE LET pushed == PushRow(l, frames[i])
         IN  IF i < Len(frames)
             THEN PushFrames(
                      FinishRegion([pushed EXCEPT !.constraints.exact.block = Some(pushed.full)]),
                      frames, i + 1)
             ELSE pushed

\* GridLayouter::layout_auto_row
LayoutAutoRow(l, y) ==
    LET resolved == AutoRowSizes(l, y, CellColumns(l, y), 1, <<>>)
    IN  IF Len(resolved) = 0 THEN l
        ELSE IF Len(resolved) = 1 THEN PushRow(l, LayoutSingleRow(l, resolved[1], y))
        ELSE LET expanded == IF IsZero(l.fr) THEN ExpandSizes(l, resolved) ELSE resolved
             IN  PushFrames(l, LayoutMultiRow(l, expanded, y), 1)

\* A loop of layout_linear_row that treats a gutter row as a content row.
RECURSIVE SkipToFittingKeepGutter(_, _, _)
SkipToFittingKeepGutter(l, length, y) ==
    IF ~Fits(l.regions.current.block, length) /\ ~InFullLast(l.regions)
    THEN SkipToFittingKeepGutter(
             FinishRegion(
                 [l EXCEPT !.constraints.max.block = Some(LAdd(l.used.block, length))]),
             length, y)
    ELSE [lay |-> l, pushed |-> TRUE]

\* The loop of layout_linear_row that skips to a fitting region; `pushed` tells
\* whether the row is pushed after it.
RECURSIVE SkipToFitting(_, _, _)
SkipToFitting(l, length, y) ==
    IF ~Fits(l.regions.current.block, length) /\ ~InFullLast(l.regions)
    THEN LET fin == FinishRegion(
                        [l EXCEPT !.constraints.max.block = Some(LAdd(l.used.block, length))])
         IN  IF y % 2 = 1 THEN [lay |-> fin, pushed |-> FALSE]
             ELSE SkipToFitting(fin, length, y)
    ELSE [lay |-> l, pushed |-> TRUE]

\* GridLayouter::layout_linear_row
LayoutLinearRow(l, v, y) ==
    LET resolved == Resolve(v, l.regions.base.block)
        frame    == LayoutSingleRow(l, resolved, y)
        skip     == SkipToFitting(l, frame.size.block, y)
    IN  IF skip.pushed THEN PushRow(skip.lay, frame) ELSE skip.lay

\* The Fractional arm of GridLayouter::layout
LayoutFractionalRow(l, v, y) ==
    [l EXCEPT !.fr = LAdd(@, v),
              !.constraints.exact.block = Some(l.full),
              !.lrows = Append(@, [kind |-> "Fr", frame |-> FrameNew(Gen(Zero, Zero)),
                                   v |-> v, y |-> y])]

\* One iteration of the loop of GridLayouter::layout
LayoutRow(l, y) ==
    LET row == l.rows[y + 1]
    IN  IF row.kind = "Auto" THEN LayoutAutoRow(l, y)
        ELSE IF row.kind = "Linear" THEN LayoutLinearRow(l, row, y)
        ELSE LayoutFractionalRow(l, row.fr, y)

\* GridLayouter::layout from row y on: the frames of the finished regions.
RECURSIVE LayoutRows(_, _)
LayoutRows(l, y) ==
    IF y >= Len(l.rows) THEN FinishRegion(l).finished
    ELSE LayoutRows(LayoutRow(l, y), y + 1)

\* GridNode::layout
GridLayout(grid, regions) ==
    LayoutRows(MeasureColumns(NewLayouter(grid, regions)).lay, 0)

(***************************************************************************)
(* The PDF exporter.  A layout action is a record with the fields kind     *)
(* ("MoveAbsolute", "SetFont", "WriteText", "DebugBox"), pos, font, size   *)
(* and text (a sequence of characters).  A page is its height and actions. *)
(***************************************************************************)
\* FontIndex::MAX, the active font of subset_fonts before any SetFont.
FontIndexMax == 1000

\* usize::MAX, the active font of write_page before any SetFont.
UsizeMax == 1001

NUM_OBJECTS_PER_FONT == 5

MoveAbsolute(pos) ==
    [kind |-> "MoveAbsolute", pos |-> pos, font |-> 0, size |-> 0, text |-> <<>>]

SetFont(index, size) ==
    [kind |-> "SetFont", pos |-> Gen(0, 0), font |-> index, size |-> size, text |-> <<>>]

WriteText(text) ==
    [kind |-> "WriteText", pos |-> Gen(0, 0), font |-> 0, size |-> 0, text |-> text]

DebugBox == [kind |-> "DebugBox", pos |-> Gen(0, 0), font |-> 0, size |-> 0, text |-> <<>>]

Range(f) == {f[i] : i \in DOMAIN f}

\* HashMap::entry(k).or_insert(v)
OrInsert(map, k, v) ==
    IF k \in DOMAIN map THEN map ELSE [x \in DOMAIN map \cup {k} |-> IF x = k THEN v ELSE map[x]]

\* The state of the walk of subset_fonts before any action.
WalkStart ==
    [font_chars |-> <<>>, old_to_new |-> <<>>, new_to_old |-> <<>>, active_font |-> FontIndexMax]

\* A walk that keeps only the characters of the last text written with a font.
WalkActionLastText(w, action) ==
    IF action.kind = "WriteText"
    THEN LET had == OrInsert(w.font_chars, w.active_font, {})
         IN  [w EXCEPT !.font_chars = [had EXCEPT ![w.active_font] = Range(action.text)]]
    ELSE IF action.kind = "SetFont"
    THEN LET next_id == Cardinality(DOMAIN w.old_to_new)
             o2n     == OrInsert(w.old_to_new, action.font, next_id)
         IN  [w EXCEPT !.active_font = action.font,
                       !.old_to_new  = o2n,
                       !.new_to_old  = OrInsert(w.new_to_old, o2n[action.font], action.font)]
    ELSE w

\* One iteration of the inner loop of subset_fonts.
WalkAction(w, action) ==
    IF action.kind = "WriteText"
    THEN LET had == OrInsert(w.font_chars, w.active_font, {})
         IN  [w EXCEPT !.font_chars =
                  [had EXCEPT ![w.active_font] = @ \cup Range(action.text)]]
    ELSE IF action.kind = "SetFont"
    THEN LET next_id == Cardinality(DOMAIN w.old_to_new)
             o2n     == OrInsert(w.old_to_new, action.font, next_id)
         IN  [w EXCEPT !.active_font = action.font,
                       !.old_to_new  = o2n,
                       !.new_to_old  = OrInsert(w.new_to_old, o2n[action.font], action.font)]
    ELSE w

\* The loops of subset_fonts over the actions of the pages from page p, action a on.
RECURSIVE WalkPages(_, _, _, _)
WalkPages(w, pages, p, a) ==
    IF p > Len(pages) THEN w
    ELSE IF a > Len(pages[p].actions) THEN WalkPages(w, pages, p + 1, 1)
    ELSE WalkPages(WalkAction(w, pages[p].actions[a]), pages, p, a + 1)

\* The subsetting loop of subset_fonts: a subsetted font is the loader's font and
\* the characters kept.  Indexing font_chars with a font that has no entry panics.
SubsetLoop(w) ==
    LET num_fonts == Cardinality(DOMAIN w.old_to_new)
    IN  IF \E index \in 0..(num_fonts - 1) : w.new_to_old[index] \notin DOMAIN w.font_chars
        THEN [panic |-> TRUE, fonts |-> <<>>, font_remap |-> w.old_to_new]
        ELSE [panic |-> FALSE,
              fonts |-> [i \in 1..num_fonts |->
                            [old   |-> w.new_to_old[i - 1],
                             chars |-> w.font_chars[w.new_to_old[i - 1]]]],
              font_remap |-> w.old_to_new]

\* PdfExporter::subset_fonts
SubsetFonts(pages) == SubsetLoop(WalkPages(WalkStart, pages, 1, 1))

\* A plan whose content streams start at the id of the last page.
CalculateOffsetsOverlapping(layout_count, font_count) ==
    LET catalog   == 1
        page_tree == catalog + 1
        pages     == <<page_tree + 1, page_tree + layout_count>>
        contents  == <<pages[2], pages[2] + layout_count - 1>>
        fonts     == <<contents[2] + 1, contents[2] + 5 * font_count>>
    IN  [catalog |-> catalog, page_tree |-> page_tree, pages |-> pages,
         contents |-> contents, fonts |-> fonts]

\* PdfExporter::calculate_offsets
CalculateOffsets(layout_count, font_count) ==
    LET catalog   == 1
        page_tree == catalog + 1
        pages     == <<page_tree + 1, page_tree + layout_count>>
        contents  == <<pages[2] + 1, pages[2] + layout_count>>
        fonts     == <<contents[2] + 1, contents[2] + 5 * font_count>>
    IN  [catalog |-> catalog, page_tree |-> page_tree, pages |-> pages,
         contents |-> contents, fonts |-> fonts]

\* The function ids: the references start ..= end in order.
Ids(pair) == [i \in 1..Max2(pair[2] - pair[1] + 1, 0) |-> pair[1] + i - 1]

\* The state of write_page before any action.
PageStart == [text |-> <<>>, active_font |-> <<UsizeMax, 0>>, next_pos |-> None, panic |-> FALSE]

\* A write_page that reads the pending position without taking it.
PageActionKeepsPosition(exp, page, st, at) ==
    LET action == page.actions[at]
    IN  IF action.kind = "MoveAbsolute" THEN [st EXCEPT !.next_pos = Some(action.pos)]
        ELSE IF action.kind = "SetFont"
        THEN LET active == <<exp.font_remap[action.font], action.size>>
             IN  [st EXCEPT !.active_font = active,
                            !.text = Append(@, [op |-> "Tf", at |-> at, font |-> active[1] + 1,
                                                size |-> action.size, x |-> 0, y |-> 0,
                                                text |-> <<>>])]
        ELSE IF action.kind = "WriteText"
        THEN LET moved == IF st.next_pos # None
                          THEN <<[op |-> "Tm", at |-> at, font |-> 0, size |-> 0,
                                  x |-> st.next_pos.inline,
                                  y |-> page.height - st.next_pos.block - st.active_font[2],
                                  text |-> <<>>]>>
                          ELSE <<>>
             IN  IF st.active_font[1] >= Len(exp.fonts)
                 THEN [st EXCEPT !.text = @ \o moved, !.panic = TRUE]
                 ELSE [st EXCEPT !.text = @ \o moved \o
                                     <<[op |-> "Tj", at |-> at, font |-> st.active_font[1],
                                        size |-> 0, x |-> 0, y |-> 0, text |-> action.text]>>]
        ELSE st

\* One iteration of the loop of write_page over the action at index `at` of the
\* page.  An operator of the content stream records the index of its action.
PageAction(exp, page, st, at) ==
    LET action == page.actions[at]
    IN  IF action.kind = "MoveAbsolute" THEN [st EXCEPT !.next_pos = Some(action.pos)]
        ELSE IF action.kind = "SetFont"
        THEN LET active == <<exp.font_remap[action.font], action.size>>
             IN  [st EXCEPT !.active_font = active,
                            !.text = Append(@, [op |-> "Tf", at |-> at, font |-> active[1] + 1,
                                                size |-> action.size, x |-> 0, y |-> 0,
                                                text |-> <<>>])]
        ELSE IF action.kind = "WriteText"
        THEN LET moved == IF st.next_pos # None
                          THEN <<[op |-> "Tm", at |-> at, font |-> 0, size |-> 0,
                                  x |-> st.next_pos.inline,
                                  y |-> page.height - st.next_pos.block - st.active_font[2],
                                  text |-> <<>>]>>
                          ELSE <<>>
             IN  IF st.active_font[1] >= Len(exp.fonts)
                 THEN [st EXCEPT !.next_pos = None, !.text = @ \o moved, !.panic = TRUE]
                 ELSE [st EXCEPT !.next_pos = None,
                                 !.text = @ \o moved \o
                                     <<[op |-> "Tj", at |-> at, font |-> st.active_font[1],
                                        size |-> 0, x |-> 0, y |-> 0, text |-> action.text]>>]
        ELSE st

\* The loop of write_page from action `at` on; it ends at once when the index of
\* the active font is out of the bounds of `fonts`.
RECURSIVE PageActions(_, _, _, _)
PageActions(exp, page, st, at) ==
    IF st.panic \/ at > Len(page.actions) THEN st
    ELSE PageActions(exp, page, PageAction(exp, page, st, at), at + 1)

\* The loop of write_page from action `at` on, up to the action at index k: the
\* state in which write_page meets that action.
RECURSIVE PageActionsUpTo(_, _, _, _, _)
PageActionsUpTo(exp, page, st, at, k) ==
    IF st.panic \/ at >= k THEN st
    ELSE PageActionsUpTo(exp, page, PageAction(exp, page, st, at), at + 1, k)

\* PdfExporter::write_page: the content stream of the page, or a panic.
WritePage(exp, page) ==
    LET st == PageActions(exp, page, PageStart, 1)
    IN  [panic |-> st.panic, text |-> st.text]

\* An indirect object as write_obj receives it: its id, its kind, the references
\* it holds (the role of the reference, a number that tells references of a role
\* apart, and the id referred to) and, for a content stream, its operators.  The
\* field `of` is the index of the page or font the object was written for.
Obj(id, kind, of, refs, text) ==
    [id |-> id, kind |-> kind, of |-> of, refs |-> refs, text |-> text]

\* PdfExporter::write_preface: the catalog, the page tree and the page objects.
WritePreface(exp, pages) ==
    LET start == exp.offsets.fonts[1]
        fonts == [i \in 1..Len(exp.fonts) |->
                     <<"Font", (i - 1) + 1, start + NUM_OBJECTS_PER_FONT * (i - 1)>>]
        kids  == [k \in 1..Len(Ids(exp.offsets.pages)) |-> <<"Kid", k - 1, Ids(exp.offsets.pages)[k]>>]
        n     == IF Len(Ids(exp.offsets.pages)) < Len(Ids(exp.offsets.contents))
                 THEN Len(Ids(exp.offsets.pages)) ELSE Len(Ids(exp.offsets.contents))
        zip   == IF n < Len(pages) THEN n ELSE Len(pages)
    IN  <<Obj(exp.offsets.catalog, "Catalog", 0, <<<<"Pages", 0, exp.offsets.page_tree>>>>, <<>>),
          Obj(exp.offsets.page_tree, "PageTree", 0, kids \o fonts, <<>>)>> \o
        [j \in 1..zip |->
            Obj(Ids(exp.offsets.pages)[j], "Page", j - 1,
                <<<<"Parent", 0, exp.offsets.page_tree>>,
                  <<"Contents", 0, Ids(exp.offsets.contents)[j]>>>>, <<>>)]

\* A write_fonts whose Type0 font names the font descriptor as its ToUnicode map.
WriteFontWrongCMap(id, i) ==
    <<Obj(id, "Type0Font", i, <<<<"Descendant", 0, id + 1>>, <<"ToUnicode", 0, id + 2>>>>, <<>>),
      Obj(id + 1, "CIDFont", i, <<<<"Descriptor", 0, id + 2>>>>, <<>>),
      Obj(id + 2, "FontDescriptor", i, <<<<"FontFile2", 0, id + 4>>>>, <<>>),
      Obj(id + 3, "CMap", i, <<>>, <<>>),
      Obj(id + 4, "FontStream", i, <<>>, <<>>)>>

\* One iteration of the loop of write_fonts: the five objects of the font with
\* dense index i written from `id` on.
WriteFont(id, i) ==
    <<Obj(id, "Type0Font", i, <<<<"Descendant", 0, id + 1>>, <<"ToUnicode", 0, id + 3>>>>, <<>>),
      Obj(id + 1, "CIDFont", i, <<<<"Descriptor", 0, id + 2>>>>, <<>>),
      Obj(id + 2, "FontDescriptor", i, <<<<"FontFile2", 0, id + 4>>>>, <<>>),
      Obj(id + 3, "CMap", i, <<>>, <<>>),
      Obj(id + 4, "FontStream", i, <<>>, <<>>)>>

\* The orders in which a HashSet or HashMap over the keys S can be iterated: its
\* hasher is seeded anew for every map, so any order can come up.
IterationOrders(S) == {s \in [1..Cardinality(S) -> S] : Range(s) = S}

\* The glyph the cmap table of a font gives a character.
GlyphOf(c) == IF c = "A" THEN 1 ELSE IF c = "B" THEN 2 ELSE 3

\* The pairs handed to CMap::new in write_fonts: the mapping of the cmap table of
\* the font, inverted pair by pair, in the order the mapping is iterated.
CharMapEntries(order) == [k \in 1..Len(order) |-> <<GlyphOf(order[k]), order[k]>>]

\* The five objects of the font with dense index i, the CMap with its pairs.
FontObjects(id, i, order) ==
    [k \in 1..Len(WriteFont(id, i)) |->
        IF WriteFont(id, i)[k].kind = "CMap"
        THEN [WriteFont(id, i)[k] EXCEPT !.text = CharMapEntries(order)]
        ELSE WriteFont(id, i)[k]]

(***************************************************************************)
(* Bounds and inputs.                                                      *)
(***************************************************************************)
\* The largest number of content column tracks and of content row tracks given.
MaxTracks == 2

\* The largest number of children of a grid.
MaxChildren == 2

\* The largest number of layout actions of a document, page breaks included.
MaxActions == 4

SeqsUpTo(S, n) == UNION {[1..k -> S] : k \in 0..n}

\* The sizings of the column tracks and of the row tracks tried.
ColSizings ==
    {Auto, Linear(Pt(4), Zero), Linear(Zero, <<1, 2>>),
     Fractional(Pt(1)), Fractional(Pt(2)), Fractional(Zero)}

RowSizings == {Auto, Linear(Pt(3), Zero), Fractional(Pt(1))}

Gutters == {<<>>, <<Linear(Pt(1), Zero)>>}

\* The children tried: a small one, and one that is wider and longer than the
\* small regions.
Nodes == {[w |-> Pt(2), h |-> Pt(1)], [w |-> Pt(7), h |-> Pt(5)]}

Grid(tracks, gutter, children) == [tracks |-> tracks, gutter |-> gutter, children |-> children]

\* The grids of the column resolution: any column tracks, no or one Auto row track.
ColumnGrids ==
    {Grid(Gen(ti, tb), Gen(gi, <<>>), ch) :
        ti \in SeqsUpTo(ColSizings, MaxTracks), tb \in {<<>>, <<Auto>>},
        gi \in Gutters, ch \in SeqsUpTo(Nodes, MaxChildren)}

\* The regions of the column resolution: one region, of any inline size.
ColumnRegions ==
    {[current |-> Gen(ci, Pt(20)), base |-> Gen(Pt(10), Pt(20)), backlog |-> <<>>,
      last |-> None, expand |-> Gen(FALSE, FALSE)] :
        ci \in {Pt(3), Pt(6), Pt(12), Inf}}

\* The grids of the row layout: a few column tracks, any row tracks, up to two
\* children.
RowGrids ==
    {Grid(Gen(ti, tb), Gen(<<>>, gb), ch) :
        ti \in {<<>>, <<Auto, Auto>>, <<Linear(Pt(4), Zero)>>, <<Auto, Fractional(Pt(1))>>},
        tb \in SeqsUpTo(RowSizings, MaxTracks),
        gb \in Gutters, ch \in SeqsUpTo(Nodes, 2)}

\* The regions of the row layout: short regions, with or without a backlog and a
\* repeated last region.
RowRegions ==
    {[current |-> Gen(ci, cb), base |-> Gen(Pt(10), Pt(5)), backlog |-> bl,
      last |-> la, expand |-> Gen(FALSE, FALSE)] :
        ci \in {Pt(6), Pt(12)}, cb \in {Pt(2), Pt(5)},
        bl \in {<<>>, <<Gen(Pt(6), Pt(2)), Gen(Pt(6), Pt(3))>>}, la \in {None, Gen(Pt(6), Inf)}}

\* The largest number of Auto columns of the grids whose Auto columns are shrunk.
MaxAutoColumns == 3

\* Children of three different natural widths, and grids of Auto columns alone.
ShrinkNodes == {[w |-> Pt(1), h |-> Pt(1)], [w |-> Pt(5), h |-> Pt(1)], [w |-> Pt(20), h |-> Pt(1)]}

ShrinkGrids ==
    {Grid(Gen([i \in 1..n |-> Auto], <<>>), Gen(<<>>, <<>>), ch) :
        n \in 1..MaxAutoColumns, ch \in SeqsUpTo(ShrinkNodes, MaxAutoColumns)}

ShrinkRegions ==
    {[current |-> Gen(ci, Pt(20)), base |-> Gen(Pt(10), Pt(20)), backlog |-> <<>>,
      last |-> None, expand |-> Gen(FALSE, FALSE)] :
        ci \in {Pt(6), Pt(12)}}

\* The layout actions tried, and the page break that ends a page of a document.
\* The loader's font indices are neither dense nor ascending.
PageBreak == [kind |-> "PageBreak", pos |-> Gen(0, 0), font |-> 0, size |-> 0, text |-> <<>>]

Actions ==
    {MoveAbsolute(Gen(1, 2)), MoveAbsolute(Gen(3, 5)), SetFont(7, 2), SetFont(4, 3),
     WriteText(<<"A">>), WriteText(<<"B", "A">>), DebugBox}

\* The height of the page with index j (from 0).
PageHeight(j) == 20 + 10 * (j % 2)

\* The pages of a document: its actions, split at the page breaks.
RECURSIVE Paginate(_, _)
Paginate(doc, j) ==
    LET breaks == {i \in 1..Len(doc) : doc[i] = PageBreak}
        first  == IF breaks = {} THEN Len(doc) + 1
                  ELSE CHOOSE i \in breaks : \A k \in breaks : i <= k
        page   == [height |-> PageHeight(j), actions |-> SubSeq(doc, 1, first - 1)]
    IN  IF breaks = {} THEN <<page>>
        ELSE <<page>> \o Paginate(SubSeq(doc, first + 1, Len(doc)), j + 1)

\* The documents exported: no page at all, or the pages of up to MaxActions actions
\* and page breaks.
Documents == {<<>>} \cup {Paginate(doc, 0) : doc \in SeqsUpTo(Actions \cup {PageBreak}, MaxActions)}

(***************************************************************************)
(* The state: a grid layout (GridNode::layout) and a PDF export (export).  *)
(***************************************************************************)
VARIABLES
    grid,       \* the GridNode laid out
    regions,    \* the regions GridNode::layout is called with
    layouter,   \* the GridLayouter
    pc,         \* where GridNode::layout stands: "measure", "rows", "done"
    y,          \* the row GridLayouter::layout is at
    case,       \* the local `case` of measure_columns once it has run
    linear,     \* the local `linear` of measure_columns once it has run
    frames,     \* what GridNode::layout returned
    layouts,    \* the MultiLayout exported
    walk,       \* the maps of subset_fonts after its walk over the actions
    exporter,   \* the PdfExporter: fonts, font_remap, offsets
    written,    \* the objects written by write_obj, in order
    trailer,    \* the root of the trailer once written, None before
    phase,      \* where export stands
    cursor      \* the page or font the loop of the phase is at, from 0

gridVars == <<grid, regions, layouter, pc, y, case, linear, frames>>

pdfVars == <<layouts, walk, exporter, written, trailer, phase, cursor>>

vars == <<grid, regions, layouter, pc, y, case, linear, frames,
          layouts, walk, exporter, written, trailer, phase, cursor>>

\* GridNode::layout after GridLayouter::new.
InitGrid(grids, regs) ==
    /\ grid \in grids
    /\ regions \in regs
    /\ layouter = NewLayouter(grid, regions)
    /\ pc = "measure"
    /\ y = 0
    /\ case = "None"
    /\ linear = Zero
    /\ frames = <<>>

NoExport ==
    /\ layouts = <<>>
    /\ walk = WalkStart
    /\ exporter = [fonts |-> <<>>, font_remap |-> <<>>, offsets |-> CalculateOffsets(0, 0)]
    /\ written = <<>>
    /\ trailer = None
    /\ phase = "idle"
    /\ cursor = 0

\* layouter.measure_columns(ctx) in GridNode::layout
Measure ==
    /\ pc = "measure"
    /\ LET m == MeasureColumns(layouter)
       IN  /\ layouter' = m.lay
           /\ case' = m.case
           /\ linear' = m.linear
    /\ pc' = "rows"
    /\ UNCHANGED <<grid, regions, y, frames>>
    /\ UNCHANGED pdfVars

RowStep(kind) ==
    /\ pc = "rows"
    /\ y < Len(layouter.rows)
    /\ layouter.rows[y + 1].kind = kind
    /\ layouter' = LayoutRow(layouter, y)
    /\ y' = y + 1
    /\ UNCHANGED <<grid, regions, pc, case, linear, frames>>
    /\ UNCHANGED pdfVars

\* The arms of the loop of GridLayouter::layout.
AutoRow == RowStep("Auto")

LinearRow == RowStep("Linear")

FractionalRow == RowStep("Fractional")

\* The end of GridLayouter::layout: the last region finished, the frames returned.
Finish ==
    /\ pc = "rows"
    /\ y >= Len(layouter.rows)
    /\ layouter' = FinishRegion(layouter)
    /\ frames' = layouter'.finished
    /\ pc' = "done"
    /\ UNCHANGED <<grid, regions, y, case, linear>>
    /\ UNCHANGED pdfVars

InitColumns == InitGrid(ColumnGrids, ColumnRegions) /\ NoExport

NextColumns == Measure

\* Column resolution alone: GridLayouter::new, then measure_columns.
SpecColumns == InitColumns /\ [][NextColumns]_vars

InitShrink == InitGrid(ShrinkGrids, ShrinkRegions) /\ NoExport

\* Column resolution of grids of Auto columns alone.
SpecShrink == InitShrink /\ [][NextColumns]_vars

InitRows == InitGrid(RowGrids, RowRegions) /\ NoExport

NextRows == Measure \/ AutoRow \/ LinearRow \/ FractionalRow \/ Finish

\* GridNode::layout as a whole.
SpecGrid == InitRows /\ [][NextRows]_vars

(***************************************************************************)
(* Properties of the column resolution and of the track unification.       *)
(***************************************************************************)
Measured == pc # "measure"

HasFlexibleColumn == \E i \in 1..Len(layouter.cols) : layouter.cols[i].kind \in {"Auto", "Fractional"}

NoInlineConstraint(cons) ==
    cons.min.inline = None /\ cons.max.inline = None /\ cons.exact.inline = None

\* C2: when measure_columns ends in the Fitting case, the constraint min.inline it
\* records is used.inline, the sum of the resolved column widths.
C2_FittingMinIsUsedInline ==
    (Measured /\ case = "Fitting") =>
        /\ layouter.constraints.min.inline = Some(layouter.used.inline)
        /\ layouter.constraints.min.inline = Some(LSum(layouter.rcols))

\* C3 as stated: when the Linear columns together exceed current.inline and there
\* is no Auto and no Fractional column, the case is Overflowing and max.inline is
\* the linear sum.
C3_PurelyLinearOverflowing ==
    (Measured /\ ~HasFlexibleColumn /\ LGt(linear, regions.current.inline)) =>
        /\ case = "Overflowing"
        /\ layouter.constraints.max.inline = Some(linear)

\* C3 amended: when the Linear columns together exceed current.inline, the case is
\* Overflowing with max.inline the linear sum if there is an Auto or Fractional
\* column, and PurelyLinear with no inline constraint if there is none.
C3_OverflowingNeedsFlexibleColumn ==
    (Measured /\ LGt(linear, regions.current.inline)) =>
        IF HasFlexibleColumn
        THEN /\ case = "Overflowing"
             /\ layouter.constraints.max.inline = Some(linear)
             /\ layouter.constraints.min.inline = None
             /\ layouter.constraints.exact.inline = None
        ELSE /\ case = "PurelyLinear"
             /\ NoInlineConstraint(layouter.constraints)

C3_Witness ==
    /\ Measured
    /\ LGt(linear, regions.current.inline)
    /\ HasFlexibleColumn
    /\ case = "Overflowing"
    /\ LGt(linear, Zero)

\* The sum of the widths of the Auto columns.
AutoWidths ==
    LSum([i \in 1..Len(layouter.cols) |->
             IF layouter.cols[i].kind = "Auto" THEN layouter.rcols[i] ELSE Zero])

\* C4: whenever measure_columns ends in the Exact case the resolved column widths
\* sum to current.inline, and when no fraction was distributed (the Auto columns
\* were shrunk) the widths of the Auto columns sum to current.inline - linear.
C4_ExactSumsToCurrent ==
    (Measured /\ case = "Exact") =>
        /\ LEq(LSum(layouter.rcols), regions.current.inline)
        /\ (\A i \in 1..Len(layouter.cols) : layouter.cols[i].kind # "Fractional"
                \/ IsZero(layouter.rcols[i]))
            => LEq(AutoWidths, LSub(regions.current.inline, linear))

\* C5: after measure_columns every resolved column width is finite and not
\* negative, and the widths sum to used.inline.
C5_ColumnsFiniteNonNegative ==
    Measured =>
        /\ \A i \in 1..Len(layouter.rcols) :
               IsFinite(layouter.rcols[i]) /\ LGe(layouter.rcols[i], Zero)
        /\ LEq(LSum(layouter.rcols), layouter.used.inline)

\* The content column and row numbers C and R of the track unification, from the
\* grid alone.
TracksC == IF Len(grid.tracks.inline) > 1 THEN Len(grid.tracks.inline) ELSE 1

TracksR ==
    LET n == Len(grid.children)
        k == CHOOSE q \in 0..n : q * TracksC >= n /\ (q = 0 \/ (q - 1) * TracksC < n)
    IN  IF Len(grid.tracks.block) > k THEN Len(grid.tracks.block) ELSE k

\* The given tracks sit at the even indices and the given gutters at the odd ones.
Interleaved(unified, tracks, gutter) ==
    /\ \A k \in 0..(Len(tracks) - 1) : 2 * k < Len(unified) => unified[2 * k + 1] = tracks[k + 1]
    /\ \A k \in 0..(Len(gutter) - 1) : 2 * k + 1 < Len(unified) => unified[2 * k + 2] = gutter[k + 1]

\* C6 as stated: cols.len() is 2C - 1 and rows.len() is 2R - 1, content tracks at
\* the even and gutter tracks at the odd indices.
C6_TrackCounts ==
    /\ Len(layouter.cols) = 2 * TracksC - 1
    /\ Len(layouter.rows) = 2 * TracksR - 1
    /\ Interleaved(layouter.cols, grid.tracks.inline, grid.gutter.inline)
    /\ Interleaved(layouter.rows, grid.tracks.block, grid.gutter.block)

\* C6 amended: cols.len() is 2C - 1; rows.len() is 2R - 1 when R >= 1 and 0 when
\* R = 0 (no row track given and no child); content tracks sit at the even and
\* gutter tracks at the odd indices.
C6_TrackCountsOrNoRow ==
    /\ Len(layouter.cols) = 2 * TracksC - 1
    /\ Len(layouter.rows) = (IF TracksR >= 1 THEN 2 * TracksR - 1 ELSE 0)
    /\ Len(layouter.rcols) = Len(layouter.cols)
    /\ Interleaved(layouter.cols, grid.tracks.inline, grid.gutter.inline)
    /\ Interleaved(layouter.rows, grid.tracks.block, grid.gutter.block)

C6_Witness ==
    /\ pc = "measure"
    /\ TracksC = 2
    /\ TracksR > Len(grid.tracks.block)
    /\ TracksR >= 1
    /\ Len(grid.gutter.inline) > 0
    /\ Len(layouter.cols) = 3
    /\ Len(layouter.rows) = 2 * TracksR - 1

(***************************************************************************)
(* Frame reuse.                                                            *)
(***************************************************************************)
\* Constraints::check on one axis value: current >= min, current <= max,
\* current == exact and base == the captured base, each where captured.
ChecksAxis(min, max, exact, base, current, regionBase) ==
    /\ min = None \/ LGe(current, min)
    /\ max = None \/ LLe(current, max)
    /\ exact = None \/ LEq(current, exact)
    /\ base = None \/ LEq(regionBase, base)

Checks(cons, regs) ==
    /\ ChecksAxis(cons.min.inline, cons.max.inline, cons.exact.inline, cons.base.inline,
                  regs.current.inline, regs.base.inline)
    /\ ChecksAxis(cons.min.block, cons.max.block, cons.exact.block, cons.base.block,
                  regs.current.block, regs.base.block)

\* Whether the regions have an i-th region (from 1), and the regions at it.
HasRegion(regs, i) == i = 1 \/ regs.last # None \/ i - 1 <= Len(regs.backlog)

RECURSIVE RegionAt(_, _)
RegionAt(regs, i) == IF i <= 1 THEN regs ELSE RegionAt(RegionsNext(regs), i - 1)

\* Whether the regions satisfy the constraints captured on each of the frames, the
\* i-th frame against the i-th region, as a cache checks the frames of one layout.
ChecksAll(results, regs) ==
    \A i \in 1..Len(results) :
        HasRegion(regs, i) /\ Checks(results[i].constraints, RegionAt(regs, i))

\* C1: if some regions satisfy the constraints captured on the frames that
\* GridNode::layout returned, then GridNode::layout under those regions returns,
\* at each position, a frame with the same size and the same child placements.
C1_FrameReuse ==
    pc = "done" =>
        \A other \in RowRegions :
            ChecksAll(frames, other) =>
                LET again == GridLayout(grid, other)
                IN  \A i \in 1..Len(frames) :
                        i <= Len(again) /\ again[i].item = frames[i].item

(***************************************************************************)
(* The export: PdfExporter::new, then PdfExporter::write.                  *)
(***************************************************************************)
NoLayout ==
    /\ grid = Grid(Gen(<<>>, <<>>), Gen(<<>>, <<>>), <<>>)
    /\ regions = RegionsOne(Gen(Zero, Zero), Gen(Zero, Zero), Gen(FALSE, FALSE))
    /\ layouter = NewLayouter(grid, regions)
    /\ pc = "idle"
    /\ y = 0
    /\ case = "None"
    /\ linear = Zero
    /\ frames = <<>>

InitPdf ==
    /\ layouts \in Documents
    /\ walk = WalkStart
    /\ exporter = [fonts |-> <<>>, font_remap |-> <<>>, offsets |-> CalculateOffsets(0, 0)]
    /\ written = <<>>
    /\ trailer = None
    /\ phase = "new"
    /\ cursor = 0
    /\ NoLayout

\* PdfExporter::new: subset_fonts, then calculate_offsets; a panic of subset_fonts
\* ends the export.
New ==
    /\ phase = "new"
    /\ walk' = WalkPages(WalkStart, layouts, 1, 1)
    /\ LET sub == SubsetFonts(layouts)
       IN  IF sub.panic
           THEN /\ phase' = "panic"
                /\ UNCHANGED exporter
           ELSE /\ phase' = "preface"
                /\ exporter' = [fonts |-> sub.fonts, font_remap |-> sub.font_remap,
                                offsets |-> CalculateOffsets(Len(layouts), Len(sub.fonts))]
    /\ UNCHANGED <<layouts, written, trailer, cursor>>
    /\ UNCHANGED gridVars

\* self.write_preface() in PdfExporter::write
Preface ==
    /\ phase = "preface"
    /\ written' = written \o WritePreface(exporter, layouts)
    /\ phase' = "pages"
    /\ cursor' = 0
    /\ UNCHANGED <<layouts, walk, exporter, trailer>>
    /\ UNCHANGED gridVars

\* The number of iterations of the loop of write_pages.
PageCount ==
    IF Len(Ids(exporter.offsets.contents)) < Len(layouts)
    THEN Len(Ids(exporter.offsets.contents)) ELSE Len(layouts)

\* One iteration of the loop of write_pages: write_page writes the content stream
\* of the page, or panics.
Page ==
    /\ phase = "pages"
    /\ cursor < PageCount
    /\ LET res == WritePage(exporter, layouts[cursor + 1])
       IN  IF res.panic
           THEN /\ phase' = "panic"
                /\ UNCHANGED <<written, cursor>>
           ELSE /\ written' = Append(written,
                        Obj(Ids(exporter.offsets.contents)[cursor + 1], "Content", cursor,
                            <<>>, res.text))
                /\ cursor' = cursor + 1
                /\ phase' = phase
    /\ UNCHANGED <<layouts, walk, exporter, trailer>>
    /\ UNCHANGED gridVars

\* The end of write_pages.
PagesEnd ==
    /\ phase = "pages"
    /\ cursor >= PageCount
    /\ phase' = "fonts"
    /\ cursor' = 0
    /\ UNCHANGED <<layouts, walk, exporter, written, trailer>>
    /\ UNCHANGED gridVars

\* One iteration of the loop of write_fonts; its local `id` starts at
\* offsets.fonts.0 and grows by 5 with each font.  The cmap table of the
\* subsetted font maps the characters kept.
Font ==
    /\ phase = "fonts"
    /\ cursor < Len(exporter.fonts)
    /\ \E order \in IterationOrders(exporter.fonts[cursor + 1].chars) :
           written' = written \o
               FontObjects(exporter.offsets.fonts[1] + 5 * cursor, cursor, order)
    /\ cursor' = cursor + 1
    /\ UNCHANGED <<layouts, walk, exporter, trailer, phase>>
    /\ UNCHANGED gridVars

\* The end of write_fonts, then write_xref_table and write_trailer.
Trailer ==
    /\ phase = "fonts"
    /\ cursor >= Len(exporter.fonts)
    /\ trailer' = Some(exporter.offsets.catalog)
    /\ phase' = "done"
    /\ UNCHANGED <<layouts, walk, exporter, written, cursor>>
    /\ UNCHANGED gridVars

NextPdf == New \/ Preface \/ Page \/ PagesEnd \/ Font \/ Trailer

\* export as a whole.
SpecPdf == InitPdf /\ [][NextPdf]_vars

(***************************************************************************)
(* Properties of the export.                                               *)
(***************************************************************************)
\* The number of pages, and the fonts selected by the SetFont actions of the pages.
P == Len(layouts)

UsedFonts ==
    UNION {{layouts[p].actions[a].font :
               a \in {i \in 1..Len(layouts[p].actions) : layouts[p].actions[i].kind = "SetFont"}} :
           p \in 1..Len(layouts)}

F == Cardinality(UsedFonts)

\* The kind and the page or font index the plan gives the object with id k.
PlannedKind(k) ==
    IF k = 1 THEN "Catalog"
    ELSE IF k = 2 THEN "PageTree"
    ELSE IF k <= 2 + P THEN "Page"
    ELSE IF k <= 2 + 2 * P THEN "Content"
    ELSE <<"Type0Font", "CIDFont", "FontDescriptor", "CMap", "FontStream">>[((k - 3 - 2 * P) % 5) + 1]

PlannedIndex(k) ==
    IF k <= 2 THEN 0
    ELSE IF k <= 2 + P THEN k - 3
    ELSE IF k <= 2 + 2 * P THEN k - 3 - P
    ELSE (k - 3 - 2 * P) \div 5

\* C7: the objects are written with the ids 1, 2, ... in this order, each once:
\* the catalog, the page tree, the pages, the contents, then the five objects of
\* each font, and a finished export has written exactly the ids 1 .. 2 + 2P + 5F.
C7_ObjectIdsInPlanOrder ==
    /\ \A k \in 1..Len(written) :
           /\ written[k].id = k
           /\ written[k].kind = PlannedKind(k)
           /\ written[k].of = PlannedIndex(k)
    /\ phase = "done" => Len(written) = 2 + 2 * P + 5 * F

C7_Witness ==
    /\ phase = "done"
    /\ P = 2
    /\ F = 1
    /\ Len(written) = 11

\* The object written with the given id, if there is exactly one.
WrittenAt(id) == {k \in 1..Len(written) : written[k].id = id}

\* Whether a reference of an object points to a written object of the kind and
\* index its role asks for.
RefResolves(o, ref) ==
    /\ Cardinality(WrittenAt(ref[3])) = 1
    /\ LET t == written[CHOOSE k \in WrittenAt(ref[3]) : TRUE]
       IN  CASE ref[1] = "Pages"      -> t.kind = "PageTree"
             [] ref[1] = "Kid"        -> t.kind = "Page" /\ t.of = ref[2]
             [] ref[1] = "Font"       -> t.kind = "Type0Font" /\ t.of = ref[2] - 1
             [] ref[1] = "Parent"     -> t.kind = "PageTree"
             [] ref[1] = "Contents"   -> t.kind = "Content" /\ t.of = o.of
             [] ref[1] = "Descendant" -> t.kind = "CIDFont" /\ t.of = o.of
             [] ref[1] = "ToUnicode"  -> t.kind = "CMap" /\ t.of = o.of
             [] ref[1] = "Descriptor" -> t.kind = "FontDescriptor" /\ t.of = o.of
             [] ref[1] = "FontFile2"  -> t.kind = "FontStream" /\ t.of = o.of
             [] OTHER                 -> FALSE

\* The roles of the references an object of a kind holds.
RolesOf(o) == {o.refs[i][1] : i \in 1..Len(o.refs)}

HoldsItsReferences(o) ==
    CASE o.kind = "Catalog"        -> RolesOf(o) = {"Pages"}
      [] o.kind = "PageTree"       ->
             /\ {o.refs[i][2] : i \in {n \in 1..Len(o.refs) : o.refs[n][1] = "Kid"}} = 0..(P - 1)
             /\ {o.refs[i][2] : i \in {n \in 1..Len(o.refs) : o.refs[n][1] = "Font"}} = 1..F
      [] o.kind = "Page"           -> RolesOf(o) = {"Parent", "Contents"}
      [] o.kind = "Type0Font"      -> RolesOf(o) = {"Descendant", "ToUnicode"}
      [] o.kind = "CIDFont"        -> RolesOf(o) = {"Descriptor"}
      [] o.kind = "FontDescriptor" -> RolesOf(o) = {"FontFile2"}
      [] OTHER                     -> o.refs = <<>>

\* C8: in a finished export every reference written into an object points to a
\* written object of the intended kind: catalog -> page tree, page tree -> every
\* page and the Type0 object of every font, page -> its content stream and the
\* page tree, Type0 -> its CIDFont and CMap, CIDFont -> its FontDescriptor,
\* FontDescriptor -> its FontFile, trailer -> catalog.
C8_ReferencesResolve ==
    phase = "done" =>
        /\ \A k \in 1..Len(written) :
               /\ HoldsItsReferences(written[k])
               /\ \A i \in 1..Len(written[k].refs) : RefResolves(written[k], written[k].refs[i])
        /\ Cardinality(WrittenAt(trailer)) = 1
        /\ \A k \in WrittenAt(trailer) : written[k].kind = "Catalog"

C8_Witness ==
    /\ phase = "done"
    /\ P = 1
    /\ F = 2
    /\ \E k \in 1..Len(written) : written[k].kind = "FontDescriptor" /\ written[k].of = 1

\* All actions of the document in page order.
RECURSIVE FlatFrom(_)
FlatFrom(p) == IF p > Len(layouts) THEN <<>> ELSE layouts[p].actions \o FlatFrom(p + 1)

Flat == FlatFrom(1)

\* The SetFont action in force at position i of the document: the last one before
\* i, or 0 when there is none; and the font it selects.
SetFontBefore(acts, i) ==
    LET before == {m \in 1..(i - 1) : acts[m].kind = "SetFont"}
    IN  IF before = {} THEN 0 ELSE CHOOSE m \in before : \A n \in before : n <= m

ActiveAt(i) ==
    IF SetFontBefore(Flat, i) = 0 THEN FontIndexMax ELSE Flat[SetFontBefore(Flat, i)].font

FirstSetFont(f) ==
    CHOOSE m \in 1..Len(Flat) :
        /\ Flat[m].kind = "SetFont" /\ Flat[m].font = f
        /\ \A n \in 1..(m - 1) : ~(Flat[n].kind = "SetFont" /\ Flat[n].font = f)

Writes == {i \in 1..Len(Flat) : Flat[i].kind = "WriteText"}

\* C9: after the walk of subset_fonts the old -> new map takes the fonts of the
\* SetFont actions one-to-one onto 0 .. N-1 in the order of their first SetFont
\* (a repeated SetFont adds nothing), new -> old is its inverse, and the character
\* set kept for a font is the union of the texts written while it was active.
C9_DenseFontRemap ==
    phase # "new" =>
        /\ DOMAIN walk.old_to_new = UsedFonts
        /\ {walk.old_to_new[f] : f \in UsedFonts} = 0..(F - 1)
        /\ \A f, g \in UsedFonts :
               walk.old_to_new[f] < walk.old_to_new[g] <=> FirstSetFont(f) < FirstSetFont(g)
        /\ DOMAIN walk.new_to_old = 0..(F - 1)
        /\ \A f \in UsedFonts : walk.new_to_old[walk.old_to_new[f]] = f
        /\ DOMAIN walk.font_chars = {ActiveAt(i) : i \in Writes}
        /\ \A f \in DOMAIN walk.font_chars :
               walk.font_chars[f] = UNION {Range(Flat[i].text) : i \in {w \in Writes : ActiveAt(w) = f}}
        /\ phase \notin {"new", "panic"} => exporter.font_remap = walk.old_to_new

C9_Witness ==
    /\ phase = "done"
    /\ Len(layouts) = 1
    /\ Cardinality({i \in 1..Len(Flat) : Flat[i].kind = "SetFont"}) = 2
    /\ F = 1
    /\ \E f \in UsedFonts : walk.font_chars[f] = {"A", "B"} /\ walk.old_to_new[f] = 0

\* Whether a MoveAbsolute occurred before the WriteText at k since the WriteText
\* before it, and the last such MoveAbsolute.
MovesBefore(acts, k) ==
    {m \in 1..(k - 1) : /\ acts[m].kind = "MoveAbsolute"
                        /\ \A q \in (m + 1)..(k - 1) : acts[q].kind # "WriteText"}

LastMove(acts, k) == CHOOSE m \in MovesBefore(acts, k) : \A n \in MovesBefore(acts, k) : n <= m

\* The property of C10 for the content stream `text` of a page.
TmFollowsMoves(page, text) ==
    LET acts == page.actions
        ops(name, k) == {t \in 1..Len(text) : text[t].op = name /\ text[t].at = k}
    IN  /\ \A t \in 1..Len(text) : text[t].op = "Tm" =>
               t < Len(text) /\ text[t + 1].op = "Tj" /\ text[t + 1].at = text[t].at
        /\ \A k \in 1..Len(acts) :
               IF acts[k].kind # "WriteText" THEN ops("Tm", k) = {} /\ ops("Tj", k) = {}
               ELSE /\ Cardinality(ops("Tj", k)) = 1
                    /\ IF MovesBefore(acts, k) = {} THEN ops("Tm", k) = {}
                       ELSE /\ Cardinality(ops("Tm", k)) = 1
                            /\ \A t \in ops("Tm", k) :
                                   /\ text[t].x = acts[LastMove(acts, k)].pos.inline
                                   /\ text[t].y = page.height - acts[LastMove(acts, k)].pos.block
                                                      - acts[SetFontBefore(acts, k)].size

\* C10: in the content stream of a page a Tm stands immediately before the string
\* of a WriteText exactly if a MoveAbsolute occurred since the WriteText before it
\* (or the start of the page); it carries the point of the last MoveAbsolute as
\* (px, page_h - py - size), size being the size of the font active at the
\* WriteText; a WriteText with no new MoveAbsolute gets no Tm.
C10_TmOnlyAfterMove ==
    \A k \in 1..Len(written) :
        written[k].kind = "Content" =>
            TmFollowsMoves(layouts[written[k].of + 1], written[k].text)

\* A page with a move, a font, and two texts: the first gets a Tm, the second none.
C10_Witness ==
    \E k \in 1..Len(written) :
        /\ written[k].kind = "Content"
        /\ LET acts == layouts[written[k].of + 1].actions
               text == written[k].text
           IN  /\ Len(acts) = 4
               /\ acts[1].kind = "MoveAbsolute"
               /\ acts[3].kind = "WriteText"
               /\ acts[4].kind = "WriteText"
               /\ Len(text) = 4
               /\ text[2].op = "Tm"
               /\ text[4].op = "Tj"

\* The objects written for the font with dense index i.
WrittenForFont(i) ==
    SelectSeq(written, LAMBDA o : o.kind \in {"Type0Font", "CIDFont", "FontDescriptor",
                                              "CMap", "FontStream"} /\ o.of = i)

\* C11: the bytes of an export are determined by the layouts and fonts: whatever
\* order the hash-based collections are iterated in, the objects written for a
\* font are the same.
C11_ByteDeterminism ==
    phase = "done" =>
        \A i \in 0..(Len(exporter.fonts) - 1) :
            \A order \in IterationOrders(exporter.fonts[i + 1].chars) :
                WrittenForFont(i) =
                    FontObjects(exporter.offsets.fonts[1] + 5 * i, i, order)

\* The track at content index k and the gutter at gutter index k of unified tracks.
ContentAt(unified, k) == unified[2 * k + 1]

GutterAt(unified, k) == unified[2 * k + 2]

ContentIndices(unified) == {k \in 0..Len(unified) : 2 * k + 1 <= Len(unified)}

GutterIndices(unified) == {k \in 0..Len(unified) : 2 * k + 2 <= Len(unified)}

\* The tracks beyond the given ones are the default, whatever was given.
DefaultsBeyond(unified, tracks, gutter) ==
    /\ \A k \in ContentIndices(unified) : k >= Len(tracks) => ContentAt(unified, k) = Auto
    /\ \A k \in GutterIndices(unified) :
           k >= Len(gutter) => GutterAt(unified, k) = Linear(Zero, Zero)

\* The tracks beyond the given ones repeat the last given one, and are the default
\* only when none was given.
LastRepeatsBeyond(unified, tracks, gutter) ==
    /\ \A k \in ContentIndices(unified) : k >= Len(tracks) =>
           ContentAt(unified, k) = IF Len(tracks) > 0 THEN tracks[Len(tracks)] ELSE Auto
    /\ \A k \in GutterIndices(unified) : k >= Len(gutter) =>
           GutterAt(unified, k) = IF Len(gutter) > 0 THEN gutter[Len(gutter)]
                                  ELSE Linear(Zero, Zero)

LinearRowStep ==
    /\ pc = "rows"
    /\ y < Len(layouter.rows)
    /\ layouter.rows[y + 1].kind = "Linear"
    /\ y' = y + 1

RowLength == Resolve(layouter.rows[y + 1], layouter.regions.base.block)

Finishes == Len(layouter'.finished) - Len(layouter.finished)

NoRoom(regs) == ~Fits(regs.current.block, RowLength) /\ ~InFullLast(regs)

\* The rows of the region after the step end with the frame of the row.
PushedOnce ==
    /\ Len(layouter'.lrows) = (IF Finishes = 0 THEN Len(layouter.lrows) ELSE 0) + 1
    /\ layouter'.lrows[Len(layouter'.lrows)].kind = "Frame"
    /\ layouter'.lrows[Len(layouter'.lrows)].frame.size.block = RowLength
    /\ layouter'.used.block =
           LAdd(IF Finishes = 0 THEN layouter.used.block ELSE Zero, RowLength)

\* C13: a Linear gutter row (odd y) that does not fit while more regions exist
\* finishes exactly one region and is pushed into none; a Linear content row
\* (even y) finishes regions until it fits or the last region is reached and is
\* then pushed exactly once.
C13_GutterDroppedAtBreak ==
    [][LinearRowStep =>
          IF y % 2 = 1 /\ NoRoom(layouter.regions)
          THEN /\ Finishes = 1
               /\ layouter'.lrows = <<>>
               /\ layouter'.used.block = Zero
               /\ layouter'.regions = RegionsNext(layouter.regions)
          ELSE /\ \A i \in 1..Finishes : NoRoom(RegionAt(layouter.regions, i))
               /\ ~NoRoom(RegionAt(layouter.regions, Finishes + 1))
               /\ y % 2 = 1 => Finishes = 0
               /\ PushedOnce]_vars

\* A gutter row was dropped at a break: the row before y is a Linear gutter of
\* nonzero size, a region is finished and the region after it is empty.
C13_Witness ==
    /\ pc = "rows"
    /\ y >= 2
    /\ y % 2 = 0
    /\ layouter.rows[y].kind = "Linear"
    /\ ~IsZero(layouter.rows[y].abs)
    /\ layouter.lrows = <<>>
    /\ Len(layouter.finished) >= 1

\* A step of GridLayouter::layout over an Auto row, and the number of entries of
\* the merged per-region block sizes of the row.
AutoRowStep ==
    /\ pc = "rows"
    /\ y < Len(layouter.rows)
    /\ layouter.rows[y + 1].kind = "Auto"
    /\ y' = y + 1

RowRegionCount == Len(AutoRowSizes(layouter, y, CellColumns(layouter, y), 1, <<>>))

\* The full block size of the i-th region counted from the current one.
FullOf(i) == IF i = 1 THEN layouter.full ELSE RegionAt(layouter.regions, i).current.block

\* The frame of the i-th region the step finishes.
FinishedBy(i) == layouter'.finished[Len(layouter.finished) + i]

\* C14: an Auto row whose merged block sizes have k >= 2 entries finishes exactly
\* k-1 regions, each with exact.block = its full size and each after the first
\* holding nothing but a frame of the row; the k-th frame is the only row of the
\* following region, and used.block is then the block size of that frame.
C14_AutoRowSpansRegions ==
    [][(AutoRowStep /\ RowRegionCount >= 2) =>
          /\ Finishes = RowRegionCount - 1
          /\ \A i \in 1..(RowRegionCount - 1) :
                 /\ FinishedBy(i).constraints.exact.block = Some(FullOf(i))
                 /\ FinishedBy(i).item.children # <<>>
                 /\ i >= 2 =>
                        \A c \in 1..Len(FinishedBy(i).item.children) :
                            IsZero(FinishedBy(i).item.children[c].pos.block)
          /\ layouter'.regions.backlog = RegionAt(layouter.regions, RowRegionCount).backlog
          /\ Len(layouter'.lrows) = 1
          /\ layouter'.lrows[1].kind = "Frame"
          /\ layouter'.used.block = layouter'.lrows[1].frame.size.block
          /\ layouter'.regions.current.block =
                 LSub(FullOf(RowRegionCount), layouter'.used.block)]_vars

\* The first row is an Auto row that spanned three regions: two are finished with
\* exact.block their full size, the third holds the last frame of the row.
C14_Witness ==
    /\ pc = "rows"
    /\ y = 1
    /\ layouter.rows[1].kind = "Auto"
    /\ Len(layouter.finished) = 2
    /\ layouter.finished[1].constraints.exact.block = Some(regions.current.block)
    /\ layouter.finished[2].constraints.exact.block = Some(regions.backlog[1].block)
    /\ Len(layouter.lrows) = 1
    /\ layouter.used.block = layouter.lrows[1].frame.size.block
    /\ ~IsZero(layouter.used.block)

\* Whether PdfExporter::new returned an exporter.
Exporting == phase # "new" /\ ~(phase = "panic" /\ written = <<>>)

\* The position in the document of the action at index k of page p.
RECURSIVE ActionsBefore(_)
ActionsBefore(p) == IF p <= 1 THEN 0 ELSE ActionsBefore(p - 1) + Len(layouts[p - 1].actions)

FlatIndex(p, k) == ActionsBefore(p) + k

\* The index of the font write_page has active when it meets action k of page p.
PageFontAt(p, k) == PageActionsUpTo(exporter, layouts[p], PageStart, 1, k).active_font[1]

\* C15: at every WriteText action of every page the font write_page encodes the
\* text with is an index into the subsetted fonts, and it is font_remap of the
\* font subset_fonts had active at that action, whose used characters include the
\* text.
C15_WriteTextFontValid ==
    Exporting =>
        \A p \in 1..Len(layouts) :
            \A k \in 1..Len(layouts[p].actions) :
                layouts[p].actions[k].kind = "WriteText" =>
                    /\ PageFontAt(p, k) \in 0..(Len(exporter.fonts) - 1)
                    /\ ActiveAt(FlatIndex(p, k)) \in DOMAIN exporter.font_remap
                    /\ PageFontAt(p, k) = exporter.font_remap[ActiveAt(FlatIndex(p, k))]
                    /\ Range(layouts[p].actions[k].text) \subseteq
                           exporter.fonts[PageFontAt(p, k) + 1].chars

\* C16: every font that got a dense index in subset_fonts has a used character
\* set when it is subsetted (the empty set if nothing was written with it), and
\* subset_fonts returns the N fonts without failing.
C16_UsedSetDefined ==
    phase # "new" =>
        /\ \A f \in DOMAIN walk.old_to_new : f \in DOMAIN walk.font_chars
        /\ Exporting
        /\ Len(exporter.fonts) = Cardinality(DOMAIN walk.old_to_new)
        /\ \A i \in 1..Len(exporter.fonts) :
               exporter.fonts[i].chars =
                   UNION {Range(Flat[w].text) : w \in {v \in Writes : ActiveAt(v) = exporter.fonts[i].old}}

\* C17: every frame GridNode::layout returns, those of the second and later
\* regions included, carries the base constraint Some(base of its region) on both
\* axes.
C17_BaseOnEveryFrame ==
    pc = "done" =>
        \A i \in 1..Len(frames) :
            /\ frames[i].constraints.base.inline = Some(RegionAt(regions, i).base.inline)
            /\ frames[i].constraints.base.block = Some(RegionAt(regions, i).base.block)

\* The block size finish_region resolves for a Fractional row of the region, and
\* whether it lays the row out at all.
FractionalRowSize(l, row) == LMul(LDiv(row.v, l.fr), LSub(l.full, l.used.block))

LaysOut(l, row) ==
    /\ row.kind = "Fr"
    /\ IsFinite(LSub(l.full, l.used.block))
    /\ IsFinite(LDiv(row.v, l.fr))

\* C18: when the last region is finished, every Fractional row that finish_region
\* lays out gets a block size ratio * (full - used.block) that is not negative.
C18_FractionalRowNonNegative ==
    (pc = "rows" /\ y >= Len(layouter.rows)) =>
        \A i \in 1..Len(layouter.lrows) :
            LaysOut(layouter, layouter.lrows[i]) =>
                LGe(FractionalRowSize(layouter, layouter.lrows[i]), Zero)

\* The space measure_columns has for the Auto columns, the widths
\* measure_auto_columns measures, and whether their sum exceeds the space so that
\* shrink_auto_columns runs.
Available == LSub(regions.current.inline, linear)

Natural == MeasureAutoColumns(layouter, Available)

Shrunk == Measured /\ LGe(Available, Zero) /\ LLt(LSub(Available, Natural.auto), Zero)

\* C19: shrink_auto_columns only shrinks: when the measured widths of the Auto
\* columns exceed the available space, no Auto column ends wider than
\* measure_auto_columns measured it.
C19_ShrinkOnlyShrinks ==
    Shrunk =>
        \A i \in 1..Len(layouter.cols) :
            layouter.cols[i].kind = "Auto" => LLe(layouter.rcols[i], Natural.rcols[i])

====
